---- MODULE Spec2Model ----
(***************************************************************************)
(* A model of the Thing of github.com/vaelen/iot (thing.go, the context /  *)
(* clock revision) driven through the mock MQTT client of mock.go, as the  *)
(* package's tests drive it.                                               *)
(*                                                                         *)
(* Durations and clock readings are whole seconds.  Strings are TLA+       *)
(* strings, concatenated with \o, so topics and client identifiers are the *)
(* very strings the code builds.                                           *)
(***************************************************************************)
EXTENDS Integers, Sequences, FiniteSets, TLC

VARIABLES
    options,    \* the *ThingOptions shared by the caller, the thing and its clients
    thing,      \* the thing struct: client and publishTicker (0 is nil)
    clients,    \* every MockMQTTClient constructed so far, in order
    tickers,    \* every clock.Ticker created so far, in order
    now,        \* the reading of options.Clock, in seconds
    procs,      \* the goroutines that call PublishState / PublishEvent / Receive
    lastPub,    \* the latest transport Publish: when it was issued and made (-1: none)
    last,       \* the latest step taken: operation, result and the calls it made
    NewClient   \* the package variable NewClient: the client constructor, or nil

vars == <<options, thing, clients, tickers, now, procs, lastPub, last, NewClient>>

----------------------------------------------------------------------------
(* Bounds of the model *)

MaxTime == 4          \* the clock stops advancing here
MaxClients == 2       \* Connects that reach the client constructor
MaxProcs == 1         \* goroutines publishing or receiving
MaxPublishes == 2     \* publishes issued in a run
MaxSegs == 2          \* event names given to one PublishEvent
MaxWall == 1          \* latest time.Now() reading (Unix seconds) of a token
MaxNowGap == 1        \* seconds that can pass between two time.Now() readings
MaxCallers == 2       \* goroutines calling Connect or Disconnect concurrently

(* Program constants *)

DefaultAuthTokenExpiration == 3600   \* time.Hour
TickerInterval == 2                  \* time.Second * 2
DefaultConfigQOS == 2
DefaultStateQOS == 1
DefaultEventQOS == 1

TenMinutes == 600
OneDay == 86400

Nil == "nil"

(* A pointer is <<>> when nil and <<v>> when it points to v *)
NilPtr == <<>>
Ptr(v) == <<v>>
Deref(p) == p[1]

----------------------------------------------------------------------------
(* Inputs *)

TestID ==
    [ProjectID |-> "test-project", Location |-> "test-location",
     Registry |-> "test-registry", DeviceID |-> "test-device"]

IDs ==
    { [ProjectID |-> a, Location |-> b, Registry |-> c, DeviceID |-> d] :
        a \in {"p", "test-project"}, b \in {"l", "test-location"},
        c \in {"r", "test-registry"}, d \in {"d", "test-device"} }

CredentialTypeRSA == 0
CredentialTypeEC == 1

CredentialsSet == { [Type |-> CredentialTypeRSA], [Type |-> CredentialTypeEC] }

Expirations == {0, 300, TenMinutes, OneDay, 90000}

Payloads == {"Top", "A"}

EventNames == {"a", "b", ""}

SeqsUpTo(S, n) == UNION { [1..k -> S] : k \in 0..n }

(* The events of doEventTest *)
TestEvents == { <<>>, <<"a">>, <<"a", "b">> }

ServerLists == { <<"ssl://mqtt.example.com:443">>, <<"already connected">> }

Procs == 1..MaxProcs

----------------------------------------------------------------------------
(* fmt.Sprintf with %s verbs only: the format is given in pieces, each "%s" *)
(* piece is replaced by the next argument, the rest is copied.             *)

RECURSIVE SprintfFrom(_, _, _, _)
SprintfFrom(format, args, i, k) ==
    IF i > Len(format) THEN ""
    ELSE IF format[i] = "%s"
         THEN args[k] \o SprintfFrom(format, args, i + 1, k + 1)
         ELSE format[i] \o SprintfFrom(format, args, i + 1, k)

Sprintf(format, args) == SprintfFrom(format, args, 1, 1)

RECURSIVE JoinSkipEmpty(_, _)
JoinSkipEmpty(elems, sep) ==
    IF Len(elems) = 0 THEN ""
    ELSE IF Head(elems) = "" THEN JoinSkipEmpty(Tail(elems), sep)
    ELSE IF Len(elems) = 1 THEN elems[1]
    ELSE elems[1] \o sep \o JoinSkipEmpty(Tail(elems), sep)

(* strings.Join *)
RECURSIVE Join(_, _)
Join(elems, sep) ==
    IF Len(elems) = 0 THEN ""
    ELSE IF Len(elems) = 1 THEN elems[1]
    ELSE elems[1] \o sep \o Join(Tail(elems), sep)

clientIDSwapped(id) ==
    Sprintf(<<"projects/", "%s", "/locations/", "%s", "/registries/", "%s", "/devices/", "%s">>,
            <<id.ProjectID, id.Registry, id.Location, id.DeviceID>>)

clientID(id) ==
    Sprintf(<<"projects/", "%s", "/locations/", "%s", "/registries/", "%s", "/devices/", "%s">>,
            <<id.ProjectID, id.Location, id.Registry, id.DeviceID>>)

configTopic(id) == Sprintf(<<"/devices/", "%s", "/config">>, <<id.DeviceID>>)

stateTopic(id) == Sprintf(<<"/devices/", "%s", "/state">>, <<id.DeviceID>>)

eventsTopic(id, subTopic) ==
    IF Len(subTopic) = 0
    THEN Sprintf(<<"/devices/", "%s", "/events">>, <<id.DeviceID>>)
    ELSE Sprintf(<<"/devices/", "%s", "/events/", "%s">>, <<id.DeviceID, Join(subTopic, "/")>>)

----------------------------------------------------------------------------
(* Records *)

NoToken == [IssuedAt |-> 0, ExpiresAt |-> 0, Audience |-> "", Method |-> ""]

(* One call on a transport client: the method and its arguments *)
Call(m, topic, qos, payload, servers) ==
    [m |-> m, topic |-> topic, qos |-> qos, payload |-> payload, servers |-> servers]

Call0(m) == Call(m, "", 0, "", <<>>)

(* The record of a step: what was called, with which arguments, what it   *)
(* returned ("pending" while the call is blocked) and the transport calls  *)
(* it made, in order.                                                      *)
Step(op, err, calls) ==
    [op |-> op, err |-> err, calls |-> calls,
     wasConnected |-> FALSE, origin |-> "", topic |-> "", payload |-> "",
     segs |-> <<>>, ctxDone |-> FALSE, issuedAt |-> 0, at |-> 0, prevAt |-> -1,
     prevIssuedAt |-> -1, connectedAtGate |-> FALSE, connectedAtIssue |-> FALSE,
     unsubscribeErr |-> "nil",
     handled |-> <<>>, configured |-> 0, token |-> NoToken, servers |-> <<>>,
     proc |-> 0, connectErr |-> "nil", id |-> NilPtr, credentials |-> NilPtr,
     wall |-> -1, signErr |-> "nil", username |-> "", password |-> <<>>,
     errorLog |-> <<>>, publishErr |-> "nil"]

IdleProc ==
    [pc |-> "idle", op |-> "", origin |-> "", topic |-> "", qos |-> 0, payload |-> "",
     segs |-> <<>>, ctxDone |-> FALSE, tk |-> 0, issuedAt |-> 0,
     wasConnected |-> FALSE, servers |-> <<>>]

DefaultOptionsZeroValues(id, credentials) ==
    [ID |-> id, Credentials |-> credentials,
     ConfigQOS |-> 0, StateQOS |-> 0, EventQOS |-> 0, AuthTokenExpiration |-> 0,
     DebugLogger |-> Nil, InfoLogger |-> Nil, ErrorLogger |-> Nil,
     QueueDirectory |-> "",
     LogMQTT |-> FALSE, ConfigHandler |-> Nil, Clock |-> Nil]

(* DefaultOptions, then the fields the tests set (getOptions) *)
DefaultOptions(id, credentials) ==
    [ID |-> id, Credentials |-> credentials,
     ConfigQOS |-> DefaultConfigQOS, StateQOS |-> DefaultStateQOS,
     EventQOS |-> DefaultEventQOS,
     AuthTokenExpiration |-> DefaultAuthTokenExpiration,
     DebugLogger |-> Nil, InfoLogger |-> Nil, ErrorLogger |-> Nil,
     QueueDirectory |-> "",
     LogMQTT |-> FALSE, ConfigHandler |-> Nil, Clock |-> Nil]

getOptions(id, credentials, expiration) ==
    [DefaultOptions(id, credentials) EXCEPT
        !.AuthTokenExpiration = expiration,
        !.DebugLogger = "debugWriter",
        !.InfoLogger = "infoWriter",
        !.ErrorLogger = "errorWriter",
        !.LogMQTT = TRUE,
        !.ConfigHandler = "ConfigHandler"]

(* make(map[string]...) *)
EmptyMap == [x \in {} |-> Nil]

(* NewMockClient *)
NewMockClient(t, o) ==
    [t |-> t, Connected |-> FALSE, ConnectedTo |-> <<>>,
     Messages |-> EmptyMap, Subscriptions |-> EmptyMap,
     DebugLogger |-> Nil, InfoLogger |-> Nil, ErrorLogger |-> Nil,
     ClientID |-> "", CredentialsProvider |-> Nil, OnConnectHandler |-> Nil]

ThingHandle == "thing"

(* New *)
New == [client |-> 0, publishTicker |-> 0]

----------------------------------------------------------------------------
(* The mock client's methods, as functions from a client record to the     *)
(* client record after the call.                                           *)

MockIsConnected(c) == c.Connected

MockSubscribe(c, topic, callback) ==
    [c EXCEPT !.Subscriptions = (topic :> callback) @@ c.Subscriptions]

MockUnsubscribe(c, topic) ==
    [c EXCEPT !.Subscriptions =
        [x \in (DOMAIN c.Subscriptions) \ {topic} |-> c.Subscriptions[x]]]

MockPublish(c, topic, payload) ==
    LET l == IF topic \in DOMAIN c.Messages THEN c.Messages[topic] ELSE <<>>
    IN [c EXCEPT !.Messages = (topic :> Append(l, payload)) @@ c.Messages]

MockDisconnect(c) == [c EXCEPT !.Connected = FALSE, !.ConnectedTo = <<>>]

OnConnectHandlerStateTopic(c) ==
    MockSubscribe(c, stateTopic(Deref(options.ID)), options.ConfigHandler)

OnConnectHandlerNoCallback(c) ==
    MockSubscribe(c, configTopic(Deref(options.ID)), Nil)

(* The handler Connect installs with SetOnConnectHandler *)
OnConnectHandler(c) ==
    MockSubscribe(c, configTopic(Deref(options.ID)), options.ConfigHandler)

(* The mock runs the installed on-connect handler when it connects *)
MockRunOnConnect(c) ==
    IF c.OnConnectHandler # Nil THEN OnConnectHandler(c) ELSE c

MockConnect(c, servers) ==
    MockRunOnConnect([c EXCEPT !.Connected = TRUE, !.ConnectedTo = servers])

(* Messages held by a client, over all topics *)
RECURSIVE CountMessages(_, _)
CountMessages(msgs, topics) ==
    IF topics = {} THEN 0
    ELSE LET t == CHOOSE x \in topics : TRUE
         IN Len(msgs[t]) + CountMessages(msgs, topics \ {t})

RECURSIVE Published(_)
Published(i) ==
    IF i = 0 THEN 0
    ELSE CountMessages(clients[i].Messages, DOMAIN clients[i].Messages) + Published(i - 1)

Waiting == {p \in DOMAIN procs : procs[p].pc = "waiting"}

----------------------------------------------------------------------------
(* The Thing *)

Running == last.err # "panic"

IsConnectedHasClient == thing.client # 0

IsConnected ==
    thing.client # 0 /\ MockIsConnected(clients[thing.client])

AlreadyConnectedNegated == thing.client # 0 /\ ~MockIsConnected(clients[thing.client])

AlreadyConnected == IsConnected

ConfigurationMissingID == options.ID = NilPtr

ConfigurationMissing == options.ID = NilPtr \/ options.Credentials = NilPtr

NewClientMissingIgnored == FALSE

(* if NewClient == nil { panic(...) } *)
NewClientMissing == NewClient = Nil

(* The options as Connect leaves them *)
ConnectOptions ==
    [options EXCEPT
        !.AuthTokenExpiration =
            IF @ = 0 THEN DefaultAuthTokenExpiration ELSE @,
        !.Clock = IF @ = Nil THEN "clock.New()" ELSE @]

(* options.Clock.Ticker(d): the first tick is due d from now, and the      *)
(* channel, of capacity one, holds no tick yet.  sent and received count    *)
(* the ticks put into the channel and the ticks taken from it.             *)
NewTicker(d) == [next |-> now + d, full |-> FALSE, sent |-> 0, received |-> 0]

ConfiguredClientNamedOnly ==
    [NewMockClient(ThingHandle, options) EXCEPT !.ClientID = clientID(Deref(options.ID))]

ConfiguredClientAlwaysLogs ==
    [NewMockClient(ThingHandle, options) EXCEPT
        !.DebugLogger = options.DebugLogger,
        !.InfoLogger = options.InfoLogger,
        !.ErrorLogger = options.ErrorLogger,
        !.ClientID = clientID(Deref(options.ID)),
        !.CredentialsProvider = "authToken",
        !.OnConnectHandler = "subscribe config"]

(* The client Connect constructs and configures, before it connects it *)
ConfiguredClient ==
    LET c0 == NewMockClient(ThingHandle, options)
        c1 == IF options.LogMQTT
              THEN [c0 EXCEPT !.DebugLogger = options.DebugLogger,
                              !.InfoLogger = options.InfoLogger,
                              !.ErrorLogger = options.ErrorLogger]
              ELSE c0
    IN [c1 EXCEPT !.ClientID = clientID(Deref(options.ID)),
                  !.CredentialsProvider = "authToken",
                  !.OnConnectHandler = "subscribe config"]

ConfigureCalls ==
    (IF options.LogMQTT
     THEN <<Call0("SetDebugLogger"), Call0("SetInfoLogger"), Call0("SetErrorLogger")>>
     ELSE <<>>)
    \o <<Call0("SetClientID"), Call0("SetCredentialsProvider"), Call0("SetOnConnectHandler")>>

IsConnectedCalls == IF thing.client # 0 THEN <<Call0("IsConnected")>> ELSE <<>>

(* The transport's Connect as thing.Connect sees it: the mock's connects and *)
(* returns nil; a transport whose Connect returns an error (the MQTTClient  *)
(* interface allows one) has not connected.                                 *)
ConnectOutcome(c, servers, connectErr) ==
    IF connectErr = "nil" THEN MockConnect(c, servers) ELSE c

ConnectResultNil(connectErr) == "nil"

(* err := t.client.Connect(ctx, servers...); return err *)
ConnectResult(connectErr) == connectErr

(* thing.Connect; connectErr is what the client's Connect returns *)
Connect(servers, connectErr) ==
    /\ Running
    /\ IF AlreadyConnected
       THEN /\ last' = [Step("Connect", "nil", IsConnectedCalls) EXCEPT
                            !.wasConnected = TRUE, !.servers = servers]
            /\ UNCHANGED <<options, thing, clients, tickers>>
       ELSE IF ConfigurationMissing
       THEN /\ last' = [Step("Connect", "ErrConfigurationError", IsConnectedCalls) EXCEPT
                            !.servers = servers]
            /\ UNCHANGED <<options, thing, clients, tickers>>
       ELSE IF NewClientMissing
       THEN /\ options' = ConnectOptions
            /\ last' = [Step("Connect", "panic", IsConnectedCalls) EXCEPT
                            !.servers = servers]
            /\ UNCHANGED <<thing, clients, tickers>>
       ELSE /\ Len(clients) < MaxClients
            /\ options' = ConnectOptions
            /\ clients' = Append(clients, ConnectOutcome(ConfiguredClient, servers, connectErr))
            /\ tickers' = Append(tickers, NewTicker(TickerInterval))
            /\ thing' = [client |-> Len(clients) + 1, publishTicker |-> Len(tickers) + 1]
            /\ last' = [Step("Connect", ConnectResult(connectErr),
                             IsConnectedCalls \o <<Call0("NewClient")>> \o ConfigureCalls
                             \o <<Call("Connect", "", 0, "", servers)>>
                             \o (IF connectErr = "nil"
                                 THEN <<Call("Subscribe", configTopic(Deref(options.ID)),
                                             options.ConfigQOS, "", <<>>)>>
                                 ELSE <<>>))
                         EXCEPT !.servers = servers, !.connectErr = connectErr]
    /\ UNCHANGED <<now, procs, lastPub, NewClient>>

UnsubscribeOutcomeKept(c, topic, unsubscribeErr) == c

(* The transport's Unsubscribe as Disconnect sees it: the mock's removes the *)
(* subscription and returns nil; a transport whose Unsubscribe returns an    *)
(* error (the MQTTClient interface allows one) leaves the subscription.     *)
UnsubscribeOutcome(c, topic, unsubscribeErr) ==
    IF unsubscribeErr = "nil" THEN MockUnsubscribe(c, topic) ELSE c

DisconnectSkipped(u) == u

(* if t.client.IsConnected() { t.client.Disconnect(ctx) } *)
DisconnectIfConnected(u) == IF MockIsConnected(u) THEN MockDisconnect(u) ELSE u

(* thing.Disconnect; unsubscribeErr is what the client's Unsubscribe         *)
(* returns, which Disconnect does not look at.                              *)
Disconnect(unsubscribeErr) ==
    /\ Running
    /\ IF thing.client # 0
       THEN LET c == clients[thing.client]
                u == UnsubscribeOutcome(c, configTopic(Deref(options.ID)), unsubscribeErr)
            IN /\ clients' = [clients EXCEPT ![thing.client] = DisconnectIfConnected(u)]
               /\ last' = [Step("Disconnect", "",
                                <<Call("Unsubscribe", configTopic(Deref(options.ID)), 0, "", <<>>),
                                  Call0("IsConnected")>>
                                \o (IF MockIsConnected(u) THEN <<Call0("Disconnect")>> ELSE <<>>))
                           EXCEPT !.wasConnected = IsConnected,
                                  !.unsubscribeErr = unsubscribeErr]
       ELSE /\ last' = Step("Disconnect", "", <<>>)
            /\ UNCHANGED clients
    /\ UNCHANGED <<options, thing, tickers, now, procs, lastPub, NewClient>>

(* thing.IsConnected, called by the user of the Thing *)
CallIsConnected ==
    /\ Running
    /\ last' = Step("IsConnected", IF IsConnected THEN "true" ELSE "false", IsConnectedCalls)
    /\ UNCHANGED <<options, thing, clients, tickers, now, procs, lastPub, NewClient>>

(* thing.publish up to the receive from the ticker's channel: the topic and *)
(* the QoS are evaluated by PublishState / PublishEvent, then the goroutine *)
(* blocks on publishTicker.C.  A nil ID or a nil publishTicker is a nil     *)
(* pointer dereference.                                                     *)
PublishTopic(op, segs) ==
    IF op = "PublishState" THEN stateTopic(Deref(options.ID)) ELSE eventsTopic(Deref(options.ID), segs)

PublishQOSSwapped(op) ==
    IF op = "PublishState" THEN options.EventQOS ELSE options.StateQOS

PublishQOS(op) ==
    IF op = "PublishState" THEN options.StateQOS ELSE options.EventQOS

MayIssue == Cardinality(Waiting) + Published(Len(clients)) < MaxPublishes

IssuePublish(p, op, origin, payload, segs, ctxDone) ==
    [pc |-> "waiting", op |-> op, origin |-> origin,
     topic |-> PublishTopic(op, segs), qos |-> PublishQOS(op),
     payload |-> payload, segs |-> segs, ctxDone |-> ctxDone,
     tk |-> thing.publishTicker, issuedAt |-> now, wasConnected |-> IsConnected,
     servers |-> <<>>]

PublishPanics == options.ID = NilPtr \/ thing.publishTicker = 0

Publish(p, op, payload, segs, ctxDone) ==
    /\ Running
    /\ procs[p].pc = "idle"
    /\ MayIssue
    /\ IF PublishPanics
       THEN /\ last' = [Step(op, "panic", <<>>) EXCEPT
                            !.origin = "caller", !.payload = payload, !.segs = segs,
                            !.ctxDone = ctxDone, !.issuedAt = now, !.at = now]
            /\ UNCHANGED procs
       ELSE /\ procs' = [procs EXCEPT ![p] =
                            IssuePublish(p, op, "caller", payload, segs, ctxDone)]
            /\ last' = [Step(op, "pending", <<>>) EXCEPT
                            !.origin = "caller", !.payload = payload, !.segs = segs,
                            !.topic = PublishTopic(op, segs),
                            !.ctxDone = ctxDone, !.issuedAt = now, !.at = now,
                            !.wasConnected = IsConnected]
    /\ UNCHANGED <<options, thing, clients, tickers, now, lastPub, NewClient>>

PublishState(p, payload, ctxDone) == Publish(p, "PublishState", payload, <<>>, ctxDone)

PublishEvent(p, payload, segs, ctxDone) == Publish(p, "PublishEvent", payload, segs, ctxDone)

ReceiveTickLeftInChannel(t) == [t EXCEPT !.received = @ + 1]

(* <-t.publishTicker.C: the tick is taken out of the channel *)
ReceiveTick(t) == [t EXCEPT !.full = FALSE, !.received = @ + 1]

(* The transport's Publish as thing.publish sees it: the mock's records the *)
(* message and returns nil; a transport whose Publish returns an error      *)
(* (the MQTTClient interface allows one) has recorded nothing.              *)
PublishOutcome(c, topic, payload, publishErr) ==
    IF publishErr = "nil" THEN MockPublish(c, topic, payload) ELSE c

PublishErrs == {"nil", "ErrNotConnected", "ErrCancelled", "ErrPublishFailed", "token error"}

PublishResultFailed(publishErr) ==
    IF publishErr = "nil" THEN "nil" ELSE "ErrPublishFailed"

(* err := t.client.Publish(...); if err != nil { return err }; return nil *)
PublishResult(publishErr) == publishErr

(* The rest of thing.publish: a tick is received from the channel the      *)
(* goroutine blocks on, the message is handed to the client the thing      *)
(* holds now, and the client's error is returned.                          *)
PassGate(p, publishErr) ==
    LET w == procs[p]
    IN /\ Running
       /\ w.pc = "waiting"
       /\ tickers[w.tk].full
       /\ tickers' = [tickers EXCEPT ![w.tk] = ReceiveTick(@)]
       /\ clients' = [clients EXCEPT ![thing.client] =
                          PublishOutcome(@, w.topic, w.payload, publishErr)]
       /\ procs' = [procs EXCEPT ![p] = IdleProc]
       /\ lastPub' = [issuedAt |-> w.issuedAt, at |-> now]
       /\ last' = [Step(w.op, PublishResult(publishErr),
                        <<Call("Publish", w.topic, w.qos, w.payload, <<>>)>>)
                   EXCEPT !.publishErr = publishErr, !.origin = w.origin, !.topic = w.topic, !.payload = w.payload,
                          !.segs = w.segs, !.ctxDone = w.ctxDone,
                          !.issuedAt = w.issuedAt, !.at = now,
                          !.prevAt = lastPub.at, !.prevIssuedAt = lastPub.issuedAt,
                          !.wasConnected = w.wasConnected /\ IsConnected,
                          !.connectedAtGate = IsConnected,
                          !.connectedAtIssue = w.wasConnected, !.proc = p]
       /\ UNCHANGED <<options, thing, now, NewClient>>

(* The payload the tests' ConfigHandler publishes as the state *)
HandlerState == "ok"

(* MockMQTTClient.Receive on the client the test holds (the latest one      *)
(* constructed), with the ConfigHandler of the tests: it keeps the config   *)
(* and calls PublishState, and so blocks in thing.publish.                  *)
Receive(p, topic, message) ==
    /\ Running
    /\ Len(clients) > 0
    /\ procs[p].pc = "idle"
    /\ LET c == clients[Len(clients)]
           handler == IF topic \in DOMAIN c.Subscriptions THEN c.Subscriptions[topic] ELSE Nil
       IN IF handler # Nil
          THEN /\ MayIssue
               /\ procs' = [procs EXCEPT ![p] =
                               IssuePublish(p, "PublishState", "handler", HandlerState, <<>>, FALSE)]
               /\ last' = [Step("Receive", "pending", <<>>) EXCEPT
                               !.topic = topic, !.payload = message,
                               !.handled = <<[thing |-> c.t, config |-> message]>>,
                               !.wasConnected = IsConnected /\ thing.client = Len(clients)]
          ELSE /\ last' = [Step("Receive", "", <<>>) EXCEPT
                               !.topic = topic, !.payload = message,
                               !.wasConnected = IsConnected /\ thing.client = Len(clients)]
               /\ UNCHANGED procs
    /\ UNCHANGED <<options, thing, clients, tickers, now, lastPub, NewClient>>

(* thing.authToken.  now1 and now2 are the Unix seconds of its two          *)
(* time.Now() readings.                                                     *)
SigningMethodRS256 == "RS256"

SigningMethod ==
    CASE Deref(options.Credentials).Type = CredentialTypeEC -> "ES256"
      [] Deref(options.Credentials).Type = CredentialTypeRSA -> "RS256"
      [] OTHER -> "RS256"

ExpirationInterval ==
    IF options.AuthTokenExpiration = 0 THEN DefaultAuthTokenExpiration
    ELSE options.AuthTokenExpiration

authTokenAtZero(now1, now2) ==
    [IssuedAt |-> 0, ExpiresAt |-> ExpirationInterval,
     Audience |-> Deref(options.ID).ProjectID, Method |-> SigningMethod]

authToken(now1, now2) ==
    [IssuedAt |-> now1, ExpiresAt |-> now2 + ExpirationInterval,
     Audience |-> Deref(options.ID).ProjectID, Method |-> SigningMethod]

(* wt.SignedString(PrivateKey): the signed token, a non-empty string, or    *)
(* the empty string and the signing error.                                  *)
SignedString(claims, signErr) ==
    IF signErr = "nil" THEN <<claims>> ELSE <<>>

SignErrs == {"nil", "key is invalid"}

(* thing.log: writes to the logger only when there is one *)
Log(logger, line) ==
    IF logger # Nil THEN <<[logger |-> logger, line |-> line]>> ELSE <<>>

(* thing.errorf *)
errorf(line) == Log(options.ErrorLogger, line)

ProviderResultUnused(token, signErr) ==
    [username |-> "unused", password |-> token, errorLog |-> <<>>]

(* The closure given to SetCredentialsProvider *)
ProviderResult(token, signErr) ==
    IF signErr # "nil"
    THEN [username |-> "", password |-> <<>>,
          errorLog |-> errorf("Error generating auth token: " \o signErr)]
    ELSE [username |-> "unused", password |-> token, errorLog |-> <<>>]

(* The credentials provider Connect installs, called on the client the     *)
(* test holds.  signErr is what signing with the private key returns.       *)
CredentialsProvider(now1, gap, signErr) ==
    /\ Running
    /\ Len(clients) > 0
    /\ clients[Len(clients)].CredentialsProvider # Nil
    /\ LET claims == authToken(now1, now1 + gap)
           r == ProviderResult(SignedString(claims, signErr), signErr)
       IN last' = [Step("CredentialsProvider", "nil", <<>>) EXCEPT
                    !.configured = options.AuthTokenExpiration,
                    !.token = claims,
                    !.wall = now1,
                    !.signErr = signErr,
                    !.username = r.username,
                    !.password = r.password,
                    !.errorLog = r.errorLog]
    /\ UNCHANGED <<options, thing, clients, tickers, now, procs, lastPub, NewClient>>

(* The caller sets options.AuthTokenExpiration to zero on the options it    *)
(* shares with the connected thing (checkClientValues).                     *)
ResetAuthTokenExpiration ==
    /\ Running
    /\ thing.client # 0
    /\ options.AuthTokenExpiration # 0
    /\ options' = [options EXCEPT !.AuthTokenExpiration = 0]
    /\ last' = Step("options.AuthTokenExpiration = 0", "", <<>>)
    /\ UNCHANGED <<thing, clients, tickers, now, procs, lastPub, NewClient>>

TickerTickDropped(t) ==
    IF t.next = now + 1 THEN [t EXCEPT !.next = @ + TickerInterval] ELSE t

(* A second passes on options.Clock: every ticker whose tick is due sends   *)
(* it unless its channel still holds the previous one.                     *)
TickerTick(t) ==
    IF t.next = now + 1
    THEN [t EXCEPT !.next = @ + TickerInterval, !.full = TRUE,
                   !.sent = IF t.full THEN @ ELSE @ + 1]
    ELSE t

ClockAdvance ==
    /\ Running
    /\ now < MaxTime
    /\ now' = now + 1
    /\ tickers' = [i \in DOMAIN tickers |-> TickerTick(tickers[i])]
    /\ last' = Step("Clock", "", <<>>)
    /\ UNCHANGED <<options, thing, clients, procs, lastPub, NewClient>>

----------------------------------------------------------------------------

(* Topics on which the tests deliver inbound messages *)
ReceiveTopics ==
    IF options.ID = NilPtr THEN {}
    ELSE {configTopic(Deref(options.ID)), stateTopic(Deref(options.ID))}

(* Options a caller can pass to New *)
OptionsSet(ids, creds, expirations) ==
    { getOptions(id, cr, e) :
        id \in {Ptr(i) : i \in ids} \cup {NilPtr},
        cr \in {Ptr(c) : c \in creds} \cup {NilPtr},
        e \in expirations }

InitWith(opts) ==
    /\ options \in opts
    /\ thing = New
    /\ clients = <<>>
    /\ tickers = <<>>
    /\ now = 0
    /\ procs = [p \in Procs |-> IdleProc]
    /\ lastPub = [issuedAt |-> -1, at |-> -1]
    /\ last = Step("New", "", <<>>)
    /\ NewClient = "NewMockClient"

(* The lifecycle, the publishers and the clock, for the identity and the    *)
(* credentials of the tests (or none).                                      *)
Init == InitWith(OptionsSet({TestID}, {[Type |-> CredentialTypeRSA]}, {0}))

Next ==
    \/ \E servers \in ServerLists : Connect(servers, "nil")
    \/ Disconnect("nil")
    \/ \E p \in Procs, payload \in Payloads, ctxDone \in BOOLEAN :
          PublishState(p, payload, ctxDone)
    \/ \E p \in Procs, payload \in Payloads, segs \in TestEvents, ctxDone \in BOOLEAN :
          PublishEvent(p, payload, segs, ctxDone)
    \/ \E p \in Procs : PassGate(p, "nil")
    \/ \E p \in Procs, payload \in Payloads :
          \E topic \in ReceiveTopics : Receive(p, topic, payload)
    \/ ClockAdvance

Spec == Init /\ [][Next]_vars

(* Token generation, for every kind of credentials and every configured     *)
(* AuthTokenExpiration.                                                     *)
TokenCredentialsSet == CredentialsSet \cup { [Type |-> CredentialTypeEC + 1] }

TokenOptionsSet ==
    LET opts == OptionsSet({TestID}, TokenCredentialsSet, Expirations)
    IN opts \cup { [o EXCEPT !.ErrorLogger = Nil] : o \in opts }

InitToken == InitWith(TokenOptionsSet)

NextToken ==
    \/ \E servers \in ServerLists : Connect(servers, "nil")
    \/ Disconnect("nil")
    \/ \E now1 \in 0..MaxWall, gap \in 0..MaxNowGap, signErr \in SignErrs :
          CredentialsProvider(now1, gap, signErr)
    \/ ResetAuthTokenExpiration

SpecToken == InitToken /\ [][NextToken]_vars

(* The client identifier and the topics, for every identity and every       *)
(* sequence of event names: Connect names the client and subscribes, one    *)
(* goroutine calls PublishState or PublishEvent and blocks at the gate.     *)
InitTopics == InitWith(OptionsSet(IDs, {[Type |-> CredentialTypeRSA]}, {0}))

NextTopics ==
    \/ \E servers \in ServerLists : Connect(servers, "nil")
    \/ Disconnect("nil")
    \/ \E payload \in Payloads : PublishState(1, payload, FALSE)
    \/ \E segs \in SeqsUpTo(EventNames, MaxSegs) : PublishEvent(1, "Top", segs, FALSE)

SpecTopics == InitTopics /\ [][NextTopics]_vars

(* The connection lifecycle and the config round trip: Connect, Disconnect,  *)
(* inbound messages, the state published by the handler or by the caller,   *)
(* and the clock, with one goroutine.                                       *)
NextLifecycle ==
    \/ \E servers \in ServerLists : Connect(servers, "nil")
    \/ Disconnect("nil")
    \/ PublishState(1, "Top", FALSE)
    \/ PassGate(1, "nil")
    \/ \E payload \in Payloads : \E topic \in ReceiveTopics : Receive(1, topic, payload)
    \/ ClockAdvance

SpecLifecycle == Init /\ [][NextLifecycle]_vars

(* The connection alone: Connect, Disconnect with either outcome of the      *)
(* client's Unsubscribe, and the IsConnected query.                         *)
UnsubscribeErrs == {"nil", "ErrCancelled"}

ConnectErrs == {"nil", "ErrCancelled"}

NextConnection ==
    \/ \E servers \in ServerLists, connectErr \in ConnectErrs : Connect(servers, connectErr)
    \/ \E unsubscribeErr \in UnsubscribeErrs : Disconnect(unsubscribeErr)
    \/ CallIsConnected

(* The options of the tests, with the MQTT logging they ask for or without *)
InitConnection ==
    InitWith({ [o EXCEPT !.LogMQTT = l] :
                 o \in OptionsSet({TestID}, {[Type |-> CredentialTypeRSA]}, {0}),
                 l \in BOOLEAN })

SpecConnection == InitConnection /\ [][NextConnection]_vars

----------------------------------------------------------------------------
(* Connect and Disconnect called from several goroutines.  The thing struct *)
(* has no lock, so the statements of the calls interleave; each action is   *)
(* the statements of one call between two accesses of t.client that another *)
(* goroutine's assignment can separate.  procs[p].pc is the statement the   *)
(* goroutine p is about to execute.                                         *)

Callers == 1..MaxCallers

ConnectPcs == {"Connect.NewClient", "Connect.Configure", "Connect.Connect"}

At(p, pc) == [procs EXCEPT ![p].pc = pc]

(* Connect up to the client constructor: the IsConnected check, the          *)
(* configuration check and the defaults of the options (thing.go:263-274).  *)
ConnectBegin(p, servers) ==
    /\ Running
    /\ procs[p].pc = "idle"
    /\ IF AlreadyConnected
       THEN /\ last' = [Step("Connect", "nil", IsConnectedCalls) EXCEPT
                            !.wasConnected = TRUE, !.servers = servers, !.proc = p]
            /\ UNCHANGED <<options, procs>>
       ELSE IF ConfigurationMissing
       THEN /\ last' = [Step("Connect", "ErrConfigurationError", IsConnectedCalls) EXCEPT
                            !.servers = servers, !.proc = p]
            /\ UNCHANGED <<options, procs>>
       ELSE /\ options' = ConnectOptions
            /\ procs' = [procs EXCEPT ![p].pc = "Connect.NewClient", ![p].servers = servers]
            /\ last' = [Step("Connect", "pending", IsConnectedCalls) EXCEPT
                            !.servers = servers, !.proc = p]
    /\ UNCHANGED <<thing, clients, tickers, now, lastPub, NewClient>>

(* t.client = NewClient(t, t.options) (thing.go:279) *)
ConnectNewClient(p) ==
    /\ Running
    /\ procs[p].pc = "Connect.NewClient"
    /\ Len(clients) < MaxClients
    /\ clients' = Append(clients, NewMockClient(ThingHandle, options))
    /\ thing' = [thing EXCEPT !.client = Len(clients) + 1]
    /\ procs' = At(p, "Connect.Configure")
    /\ last' = [Step("Connect", "pending", <<Call0("NewClient")>>) EXCEPT
                    !.servers = procs[p].servers, !.proc = p]
    /\ UNCHANGED <<options, tickers, now, lastPub, NewClient>>

(* The setters, each on the client t.client holds when it is called, and    *)
(* the new ticker (thing.go:281-302).                                       *)
ConfigureClient(c) ==
    [c EXCEPT !.DebugLogger = IF options.LogMQTT THEN options.DebugLogger ELSE @,
              !.InfoLogger = IF options.LogMQTT THEN options.InfoLogger ELSE @,
              !.ErrorLogger = IF options.LogMQTT THEN options.ErrorLogger ELSE @,
              !.ClientID = clientID(Deref(options.ID)),
              !.CredentialsProvider = "authToken",
              !.OnConnectHandler = "subscribe config"]

ConnectConfigure(p) ==
    /\ Running
    /\ procs[p].pc = "Connect.Configure"
    /\ clients' = [clients EXCEPT ![thing.client] = ConfigureClient(@)]
    /\ tickers' = Append(tickers, NewTicker(TickerInterval))
    /\ thing' = [thing EXCEPT !.publishTicker = Len(tickers) + 1]
    /\ procs' = At(p, "Connect.Connect")
    /\ last' = [Step("Connect", "pending", ConfigureCalls) EXCEPT
                    !.servers = procs[p].servers, !.proc = p]
    /\ UNCHANGED <<options, now, lastPub, NewClient>>

(* err := t.client.Connect(ctx, servers...); return err (thing.go:304-309) *)
ConnectClient(p) ==
    /\ Running
    /\ procs[p].pc = "Connect.Connect"
    /\ clients' = [clients EXCEPT ![thing.client] = MockConnect(@, procs[p].servers)]
    /\ procs' = [procs EXCEPT ![p] = IdleProc]
    /\ last' = [Step("Connect", "nil",
                     <<Call("Connect", "", 0, "", procs[p].servers),
                       Call("Subscribe", configTopic(Deref(options.ID)),
                            options.ConfigQOS, "", <<>>)>>)
                 EXCEPT !.servers = procs[p].servers, !.proc = p]
    /\ UNCHANGED <<options, thing, tickers, now, lastPub, NewClient>>

(* if t.client != nil { t.client.Unsubscribe(ctx, t.configTopic())           *)
(* (thing.go:319-320)                                                       *)
DisconnectUnsubscribe(p) ==
    /\ Running
    /\ procs[p].pc = "idle"
    /\ IF thing.client # 0
       THEN /\ clients' = [clients EXCEPT ![thing.client] =
                               MockUnsubscribe(@, configTopic(Deref(options.ID)))]
            /\ procs' = At(p, "Disconnect.IsConnected")
            /\ last' = [Step("Disconnect", "pending",
                             <<Call("Unsubscribe", configTopic(Deref(options.ID)), 0, "", <<>>)>>)
                        EXCEPT !.wasConnected = IsConnected, !.proc = p]
       ELSE /\ last' = [Step("Disconnect", "", <<>>) EXCEPT !.proc = p]
            /\ UNCHANGED <<clients, procs>>
    /\ UNCHANGED <<options, thing, tickers, now, lastPub, NewClient>>

(* if t.client.IsConnected() (thing.go:321) *)
DisconnectCheck(p) ==
    /\ Running
    /\ procs[p].pc = "Disconnect.IsConnected"
    /\ procs' = IF MockIsConnected(clients[thing.client])
                THEN At(p, "Disconnect.Disconnect")
                ELSE [procs EXCEPT ![p] = IdleProc]
    /\ last' = [Step("Disconnect",
                     IF MockIsConnected(clients[thing.client]) THEN "pending" ELSE "",
                     <<Call0("IsConnected")>>)
                 EXCEPT !.proc = p]
    /\ UNCHANGED <<options, thing, clients, tickers, now, lastPub, NewClient>>

(* t.client.Disconnect(ctx) (thing.go:323) *)
DisconnectClient(p) ==
    /\ Running
    /\ procs[p].pc = "Disconnect.Disconnect"
    /\ clients' = [clients EXCEPT ![thing.client] = MockDisconnect(@)]
    /\ procs' = [procs EXCEPT ![p] = IdleProc]
    /\ last' = [Step("Disconnect", "", <<Call0("Disconnect")>>) EXCEPT !.proc = p]
    /\ UNCHANGED <<options, thing, tickers, now, lastPub, NewClient>>

InitConcurrent ==
    /\ options \in OptionsSet({TestID}, {[Type |-> CredentialTypeRSA]}, {0})
    /\ thing = New
    /\ clients = <<>>
    /\ tickers = <<>>
    /\ now = 0
    /\ procs = [p \in Callers |-> IdleProc]
    /\ lastPub = [issuedAt |-> -1, at |-> -1]
    /\ last = Step("New", "", <<>>)
    /\ NewClient = "NewMockClient"

NextConcurrent ==
    \/ \E p \in Callers, servers \in ServerLists : ConnectBegin(p, servers)
    \/ \E p \in Callers : ConnectNewClient(p)
    \/ \E p \in Callers : ConnectConfigure(p)
    \/ \E p \in Callers : ConnectClient(p)
    \/ \E p \in Callers : DisconnectUnsubscribe(p)
    \/ \E p \in Callers : DisconnectCheck(p)
    \/ \E p \in Callers : DisconnectClient(p)

SpecConcurrent == InitConcurrent /\ [][NextConcurrent]_vars

(* The gate with several goroutines waiting on it at once *)
NextGate ==
    \/ Connect(<<"ssl://mqtt.example.com:443">>, "nil")
    \/ \E p \in Callers : PublishState(p, "Top", FALSE)
    \/ \E p \in Callers : PassGate(p, "nil")
    \/ ClockAdvance

SpecGate == InitConcurrent /\ [][NextGate]_vars

(* Inbound messages whose handler publishes the state, next to goroutines   *)
(* that publish on their own.  The clock keeps running up to the horizon of *)
(* the model (weak fairness of ClockAdvance), and a goroutine blocked on    *)
(* the ticker's channel receives once a tick stays available to it (weak    *)
(* fairness of PassGate).                                                   *)
(* Two goroutines: each delivers inbound messages or publishes on its own *)
HandlerProcs == {1, 2}

InitHandler ==
    /\ options = getOptions(Ptr(TestID), Ptr([Type |-> CredentialTypeRSA]), 0)
    /\ thing = New
    /\ clients = <<>>
    /\ tickers = <<>>
    /\ now = 0
    /\ procs = [p \in HandlerProcs |-> IdleProc]
    /\ lastPub = [issuedAt |-> -1, at |-> -1]
    /\ last = Step("New", "", <<>>)
    /\ NewClient = "NewMockClient"

NextHandler ==
    \/ Connect(<<"ssl://mqtt.example.com:443">>, "nil")
    \/ \E p \in HandlerProcs : Receive(p, configTopic(Deref(options.ID)), "Top")
    \/ \E p \in HandlerProcs : PublishState(p, "A", FALSE)
    \/ \E p \in HandlerProcs : PassGate(p, "nil")
    \/ ClockAdvance

SpecHandler ==
    /\ InitHandler
    /\ [][NextHandler]_vars
    /\ WF_vars(ClockAdvance)
    /\ \A p \in HandlerProcs : WF_vars(PassGate(p, "nil"))

(* A publish with a live or a done context waiting at the gate.  A          *)
(* goroutine blocked on the channel receives as soon as a tick is there     *)
(* (weak fairness of PassGate); nothing makes options.Clock advance, which  *)
(* an injected clock does only when the test moves it.                      *)
NextCancel ==
    \/ \E servers \in ServerLists : Connect(servers, "nil")
    \/ \E ctxDone \in BOOLEAN : PublishState(1, "Top", ctxDone)
    \/ PassGate(1, "nil")
    \/ ClockAdvance

SpecCancel == Init /\ [][NextCancel]_vars /\ WF_vars(PassGate(1, "nil"))

(* Publishing states and the events of the tests, with the default QoS and  *)
(* with a StateQOS that differs from the EventQOS.                          *)
InitPublish ==
    InitWith({ [getOptions(Ptr(TestID), Ptr([Type |-> CredentialTypeRSA]), 0)
                   EXCEPT !.StateQOS = q] : q \in {0, DefaultStateQOS} })

NextPublish ==
    \/ Connect(<<"ssl://mqtt.example.com:443">>, "nil")
    \/ \E payload \in Payloads : PublishState(1, payload, FALSE)
    \/ \E payload \in Payloads, segs \in TestEvents : PublishEvent(1, payload, segs, FALSE)
    \/ PassGate(1, "nil")
    \/ ClockAdvance

SpecPublish == InitPublish /\ [][NextPublish]_vars

(* Publishing through a transport whose Publish returns nil or an error *)
NextTransport ==
    \/ Connect(<<"ssl://mqtt.example.com:443">>, "nil")
    \/ \E payload \in Payloads : PublishState(1, payload, FALSE)
    \/ \E payload \in Payloads, segs \in TestEvents : PublishEvent(1, payload, segs, FALSE)
    \/ \E publishErr \in PublishErrs : PassGate(1, publishErr)
    \/ ClockAdvance

SpecTransport == InitPublish /\ [][NextTransport]_vars

(* The client constructor: the program assigns the package variable, as the *)
(* tests do with the mock's, and package paho's init registers its own      *)
(* when the package is loaded, before the Thing is used.                    *)
SetNewClient(f) ==
    /\ Running
    /\ f # NewClient
    /\ NewClient' = f
    /\ last' = Step("SetNewClient", "", <<>>)
    /\ UNCHANGED <<options, thing, clients, tickers, now, procs, lastPub>>

PahoInitOverrides(f) == "paho.NewClient"

(* if iot.NewClient == nil { iot.NewClient = NewClient } *)
PahoInit(f) == IF f = Nil THEN "paho.NewClient" ELSE f

init ==
    /\ clients = <<>>
    /\ last.op \in {"New", "SetNewClient"}
    /\ NewClient' = PahoInit(NewClient)
    /\ last' = Step("init", "", <<>>)
    /\ UNCHANGED <<options, thing, clients, tickers, now, procs, lastPub>>

InitRegistry ==
    /\ options \in OptionsSet({TestID}, {[Type |-> CredentialTypeRSA]}, {0})
    /\ thing = New
    /\ clients = <<>>
    /\ tickers = <<>>
    /\ now = 0
    /\ procs = [p \in Procs |-> IdleProc]
    /\ lastPub = [issuedAt |-> -1, at |-> -1]
    /\ last = Step("New", "", <<>>)
    /\ NewClient = Nil

NextRegistry ==
    \/ \E f \in {Nil, "NewMockClient"} : SetNewClient(f)
    \/ init
    \/ \E servers \in ServerLists : Connect(servers, "nil")
    \/ Disconnect("nil")
    \/ CallIsConnected

SpecRegistry == InitRegistry /\ [][NextRegistry]_vars

(* The caller makes the default options for an identity and credentials and *)
(* a new Thing from them, before any client exists.                         *)
NewWithDefaultOptions(id, credentials) ==
    /\ Running
    /\ clients = <<>>
    /\ \A p \in DOMAIN procs : procs[p].pc = "idle"
    /\ options' = DefaultOptions(id, credentials)
    /\ thing' = New
    /\ last' = [Step("DefaultOptions", "", <<>>) EXCEPT
                    !.id = id, !.credentials = credentials]
    /\ UNCHANGED <<clients, tickers, now, procs, lastPub, NewClient>>

NextOptions ==
    \/ \E id \in {Ptr(i) : i \in IDs} \cup {NilPtr},
          credentials \in {Ptr(c) : c \in CredentialsSet} \cup {NilPtr} :
          NewWithDefaultOptions(id, credentials)
    \/ \E servers \in ServerLists : Connect(servers, "nil")
    \/ Disconnect("nil")
    \/ CallIsConnected

SpecOptions == Init /\ [][NextOptions]_vars

----------------------------------------------------------------------------
(* Calls of a step that reach the transport: construction of a client and   *)
(* any method other than the IsConnected query.                             *)
Methods(calls) == { calls[i].m : i \in DOMAIN calls }

(* C1: a Connect on a Thing that is connected returns nil and changes       *)
(* nothing: no client is constructed, the client's Connect is not called    *)
(* again, and the clients (so the brokers they are connected to), the       *)
(* thing, its ticker and the options stay as they were, whatever brokers    *)
(* the call names and however often it is repeated.                         *)
ConnectWhileConnectedChangesNothing ==
    [][ (IsConnected /\ last'.op = "Connect")
        => /\ last'.err = "nil"
           /\ Methods(last'.calls) \subseteq {"IsConnected"}
           /\ UNCHANGED <<options, thing, clients, tickers, procs, now, lastPub>> ]_vars

(* A Connect on a connected Thing that names other brokers than the ones    *)
(* the client is connected to has returned nil.                             *)
ConnectWhileConnectedWitness ==
    /\ last.op = "Connect"
    /\ last.wasConnected
    /\ last.err = "nil"
    /\ IsConnected
    /\ last.servers # clients[thing.client].ConnectedTo

(* C2: with no ID or no Credentials in the options, Connect returns         *)
(* ErrConfigurationError without constructing a client or calling one, and  *)
(* the Thing is not connected.                                              *)
ConnectWithoutConfiguration ==
    (last.op = "Connect" /\ (options.ID = NilPtr \/ options.Credentials = NilPtr))
    => /\ last.err = "ErrConfigurationError"
       /\ last.calls = <<>>
       /\ clients = <<>>
       /\ thing = New
       /\ ~IsConnected

(* A Connect has failed on options that hold an ID but no Credentials *)
ConnectWithoutConfigurationWitness ==
    /\ last.op = "Connect"
    /\ last.err = "ErrConfigurationError"
    /\ options.ID # NilPtr
    /\ options.Credentials = NilPtr

PublishOps == {"PublishState", "PublishEvent"}

(* C3: PublishState and PublishEvent on a Thing as New returns it (no       *)
(* Connect has created a client or a ticker), the options holding an ID     *)
(* and Credentials, return ErrNotConnected.                                 *)
PublishBeforeConnectNotConnected ==
    (last.op \in PublishOps /\ thing = New
       /\ options.ID # NilPtr /\ options.Credentials # NilPtr)
    => last.err = "ErrNotConnected"

(* C4: a PublishState or PublishEvent issued on a connected Thing with a    *)
(* context that is already done returns ErrCancelled, and the client's      *)
(* Publish is not called for it.                                            *)
PublishWithDoneContextCancelled ==
    (last.op \in PublishOps /\ last.err # "pending" /\ last.ctxDone /\ last.wasConnected)
    => /\ last.err = "ErrCancelled"
       /\ "Publish" \notin Methods(last.calls)

Min(a, b) == IF a <= b THEN a ELSE b

(* C5: when two publishes are issued on a connected Thing, at least the     *)
(* ticker's interval passes between the first being issued and both having  *)
(* reached the client's Publish, whatever the idle time before; stated for  *)
(* a Thing that has connected once, so that one ticker exists.              *)
PublishesAnIntervalApart ==
    (last.op \in PublishOps /\ "Publish" \in Methods(last.calls) /\ last.prevAt >= 0
       /\ Len(tickers) = 1)
    => last.at - Min(last.prevIssuedAt, last.issuedAt) >= TickerInterval

TokenLifetimeIsInterval ==
    last.op = "CredentialsProvider"
    => LET life == last.token.ExpiresAt - last.token.IssuedAt
       IN /\ (last.configured >= TenMinutes /\ last.configured <= OneDay)
             => life = last.configured
          /\ last.configured = 0 => life = DefaultAuthTokenExpiration
          /\ last.token.Audience = Deref(options.ID).ProjectID

(* C8: the lifetime of every token issued lies between 10 minutes and 24    *)
(* hours.                                                                   *)
TokenLifetimeClamped ==
    last.op = "CredentialsProvider"
    => LET life == last.token.ExpiresAt - last.token.IssuedAt
       IN life >= TenMinutes /\ life <= OneDay

(* The topic under /devices/D/events with every event name appended after   *)
(* a "/", in the order given.                                               *)
RECURSIVE SlashEach(_)
SlashEach(segs) ==
    IF segs = <<>> THEN "" ELSE "/" \o Head(segs) \o SlashEach(Tail(segs))

(* C9: the event topic of device D is /devices/D/events for no event names  *)
(* and /devices/D/events/s1/.../sn for the names s1..sn, none validated,    *)
(* dropped or reordered.                                                    *)
EventsTopicFormat ==
    /\ last.op = "PublishEvent" /\ last.err = "pending"
       => last.topic = "/devices/" \o Deref(options.ID).DeviceID \o "/events"
                       \o SlashEach(last.segs)
    /\ \A p \in Procs :
          (procs[p].pc = "waiting" /\ procs[p].op = "PublishEvent")
          => procs[p].topic = "/devices/" \o Deref(options.ID).DeviceID \o "/events"
                              \o SlashEach(procs[p].segs)
    /\ (last.op = "PublishEvent" /\ last.err = "pending"
          /\ Deref(options.ID).DeviceID = "d" /\ last.segs = <<"a", "b">>)
       => last.topic = "/devices/d/events/a/b"

(* A PublishEvent with two event names, the first of them empty, waits at   *)
(* the gate.                                                                *)
EventsTopicWitness ==
    /\ last.op = "PublishEvent"
    /\ last.err = "pending"
    /\ Len(last.segs) = 2
    /\ last.segs[1] = ""
    /\ procs[1].pc = "waiting"

(* C10: the client identifier set on the client is                          *)
(* projects/P/locations/L/registries/R/devices/D, the topic subscribed is   *)
(* /devices/D/config and the topic of PublishState is /devices/D/state,     *)
(* for every identity and on every call.                                    *)
IdentityStrings ==
    /\ \A i \in DOMAIN clients :
          LET id == Deref(options.ID)
          IN /\ clients[i].ClientID =
                  "projects/" \o id.ProjectID \o "/locations/" \o id.Location
                  \o "/registries/" \o id.Registry \o "/devices/" \o id.DeviceID
             /\ DOMAIN clients[i].Subscriptions \subseteq
                  {"/devices/" \o id.DeviceID \o "/config"}
             /\ id = TestID =>
                  clients[i].ClientID =
                  "projects/test-project/locations/test-location/registries/test-registry/devices/test-device"
    /\ (last.op = "Connect" /\ "Subscribe" \in Methods(last.calls))
       => \A k \in DOMAIN last.calls :
             last.calls[k].m = "Subscribe"
             => last.calls[k].topic = "/devices/" \o Deref(options.ID).DeviceID \o "/config"
    /\ (last.op = "PublishState" /\ last.err = "pending")
       => last.topic = "/devices/" \o Deref(options.ID).DeviceID \o "/state"

(* A PublishState waits at the gate of a Thing whose client is named and    *)
(* subscribed, for an identity other than the tests'.                       *)
IdentityStringsWitness ==
    /\ last.op = "PublishState"
    /\ last.err = "pending"
    /\ IsConnected
    /\ clients[thing.client].ClientID # ""
    /\ DOMAIN clients[thing.client].Subscriptions # {}
    /\ Deref(options.ID).Location = "l"
    /\ Deref(options.ID).Registry = "test-registry"

(* The place of the first call of method m among the calls of the last step *)
CallIndex(m) == CHOOSE k \in DOMAIN last.calls : last.calls[k].m = m

DisconnectUnsubscribesThenDisconnects ==
    (last.op = "Disconnect" /\ last.wasConnected)
    => /\ last.calls =
            <<Call("Unsubscribe", "/devices/" \o Deref(options.ID).DeviceID \o "/config",
                   0, "", <<>>),
              Call0("IsConnected"), Call0("Disconnect")>>
       /\ last.err = ""
       /\ ~IsConnected
       /\ ~clients[thing.client].Connected
       /\ last.unsubscribeErr = "nil" => DOMAIN clients[thing.client].Subscriptions = {}

(* A connected Thing has been disconnected although Unsubscribe failed *)
DisconnectUnsubscribesWitness ==
    /\ last.op = "Disconnect"
    /\ last.wasConnected
    /\ last.unsubscribeErr # "nil"
    /\ DOMAIN clients[thing.client].Subscriptions # {}

(* C13: Disconnect on a Thing that is not connected calls neither            *)
(* Unsubscribe nor Disconnect on a client and changes nothing.              *)
DisconnectWhenNotConnectedIsNoOp ==
    [][ (~IsConnected /\ last'.op = "Disconnect")
        => /\ Methods(last'.calls) \cap {"Unsubscribe", "Disconnect"} = {}
           /\ UNCHANGED <<options, thing, clients, tickers, procs, now, lastPub>> ]_vars

(* C14: IsConnected returns true exactly when the Thing holds a client and   *)
(* that client reports itself connected; it is false on a new Thing and     *)
(* after Disconnect.                                                        *)
IsConnectedIffClientConnected ==
    /\ IsConnected <=> (thing.client # 0 /\ clients[thing.client].Connected)
    /\ last.op = "IsConnected"
       => (last.err = "true" <=> (thing.client # 0 /\ clients[thing.client].Connected))
    /\ thing = New => ~IsConnected
    /\ last.op = "Disconnect" => ~IsConnected

(* IsConnected has returned false on a Thing that holds a client *)
IsConnectedWitness ==
    /\ last.op = "IsConnected"
    /\ last.err = "false"
    /\ thing.client # 0

(* C15: under concurrent Connect calls no connected client is left          *)
(* unreferenced by the Thing (so at most one is connected), and the client  *)
(* a Connect has constructed is not replaced or shared by another Connect   *)
(* in flight: at most one Connect is past the client constructor.           *)
ConcurrentConnectsKeepOneClient ==
    /\ \A i \in DOMAIN clients : clients[i].Connected => thing.client = i
    /\ Cardinality({p \in DOMAIN procs :
                      procs[p].pc \in {"Connect.Configure", "Connect.Connect"}}) <= 1

(* C16: no step of a Disconnect (the client's Unsubscribe, IsConnected or    *)
(* Disconnect) executes while a Connect of another goroutine is between its *)
(* start and its end.                                                       *)
ConnectDisconnectSerialized ==
    (last.op = "Disconnect" /\ last.calls # <<>>)
    => \A p \in DOMAIN procs : procs[p].pc \notin ConnectPcs

(* C17: each tick releases at most one goroutine waiting at the gate: no     *)
(* ticker has had more ticks received from its channel than were put into   *)
(* it since it was created.                                                 *)
TickReleasesOneWaiter ==
    \A i \in DOMAIN tickers : tickers[i].received <= tickers[i].sent

(* Of two goroutines waiting on the same ticker, one has passed on the only *)
(* tick delivered and the other still waits.                                *)
TickReleasesOneWaiterWitness ==
    /\ last.op = "PublishState"
    /\ last.err = "nil"
    /\ \E q \in DOMAIN procs :
          /\ q # last.proc
          /\ procs[q].pc = "waiting"
          /\ procs[q].tk = thing.publishTicker
          /\ procs[q].issuedAt < last.at
          /\ tickers[procs[q].tk].sent = 1
          /\ tickers[procs[q].tk].received = 1

(* C18: a publish that waits at the gate with a context that is done         *)
(* returns, even if no further tick is delivered.                           *)
CancelledWaiterReturns ==
    \A p \in Procs :
        (procs[p].pc = "waiting" /\ procs[p].ctxDone) ~> (procs[p].pc = "idle")

(* The messages a client holds under a topic *)
MessagesOn(c, topic) == IF topic \in DOMAIN c.Messages THEN c.Messages[topic] ELSE <<>>

(* C19: a PublishState(p) that returns nil has handed the client exactly one *)
(* message, with the state topic, options.StateQOS and payload p, and a     *)
(* PublishEvent(p, names...) exactly one with the event topic of the names, *)
(* options.EventQOS and p; the messages under every other topic and of      *)
(* every other client are as they were.                                     *)
PublishHandsOneMessage ==
    [][ (last'.op \in PublishOps /\ last'.err = "nil")
        => LET d == Deref(options.ID).DeviceID
               topic == IF last'.op = "PublishState"
                        THEN "/devices/" \o d \o "/state"
                        ELSE "/devices/" \o d \o "/events" \o SlashEach(last'.segs)
               qos == IF last'.op = "PublishState" THEN options.StateQOS
                      ELSE options.EventQOS
               c == clients[thing.client]
               c2 == clients'[thing.client]
           IN /\ last'.calls = <<Call("Publish", topic, qos, last'.payload, <<>>)>>
              /\ MessagesOn(c2, topic) = Append(MessagesOn(c, topic), last'.payload)
              /\ DOMAIN c2.Messages = DOMAIN c.Messages \cup {topic}
              /\ \A t \in DOMAIN c.Messages \ {topic} : c2.Messages[t] = c.Messages[t]
              /\ [c2 EXCEPT !.Messages = c.Messages] = c
              /\ \A i \in DOMAIN clients : i # thing.client => clients'[i] = clients[i]
              /\ thing' = thing ]_vars

(* A PublishEvent with two names has handed the client its message after an *)
(* earlier publish, under options whose StateQOS and EventQOS differ.       *)
PublishHandsOneMessageWitness ==
    /\ last.op = "PublishEvent"
    /\ last.err = "nil"
    /\ last.segs = <<"a", "b">>
    /\ last.prevAt >= 0
    /\ options.StateQOS # options.EventQOS

(* C20: a PublishState or PublishEvent issued on a Thing that has been       *)
(* connected and disconnected, and is not connected when it receives its    *)
(* tick, returns ErrNotConnected, and the client's Publish is not called.   *)
PublishAfterDisconnectNotConnected ==
    (last.op \in PublishOps /\ last.err \notin {"pending", "panic"}
       /\ thing.client # 0 /\ ~last.connectedAtIssue /\ ~last.connectedAtGate)
    => /\ last.err = "ErrNotConnected"
       /\ "Publish" \notin Methods(last.calls)

(* The calls of method m among the calls of the last step *)
CallsOf(m) == { k \in DOMAIN last.calls : last.calls[k].m = m }

LoggersOnlyWithLogMQTT ==
    LET setters == {"SetDebugLogger", "SetInfoLogger", "SetErrorLogger"}
    IN /\ (last.op = "Connect" /\ "NewClient" \in Methods(last.calls))
          => /\ options.LogMQTT => setters \subseteq Methods(last.calls)
             /\ ~options.LogMQTT => setters \cap Methods(last.calls) = {}
       /\ \A i \in DOMAIN clients :
             /\ options.LogMQTT
                => /\ clients[i].DebugLogger = options.DebugLogger
                   /\ clients[i].InfoLogger = options.InfoLogger
                   /\ clients[i].ErrorLogger = options.ErrorLogger
                   /\ clients[i].DebugLogger # Nil
             /\ ~options.LogMQTT
                => /\ clients[i].DebugLogger = Nil
                   /\ clients[i].InfoLogger = Nil
                   /\ clients[i].ErrorLogger = Nil

(* A client has been constructed and connected under options that hold      *)
(* loggers but do not set LogMQTT.                                          *)
LoggersOnlyWithLogMQTTWitness ==
    /\ last.op = "Connect"
    /\ "NewClient" \in Methods(last.calls)
    /\ ~options.LogMQTT
    /\ options.DebugLogger # Nil
    /\ IsConnected

(* C23: DefaultOptions(id, credentials) holds the id and the credentials     *)
(* given, ConfigQOS 2, StateQOS 1, EventQOS 1, an AuthTokenExpiration of    *)
(* one hour, and no logger, handler, queue directory, MQTT logging or       *)
(* clock.                                                                   *)
DefaultOptionsValues ==
    last.op = "DefaultOptions"
    => /\ options.ID = last.id
       /\ options.Credentials = last.credentials
       /\ options.ConfigQOS = 2
       /\ options.StateQOS = 1
       /\ options.EventQOS = 1
       /\ options.AuthTokenExpiration = 3600
       /\ options.DebugLogger = Nil
       /\ options.InfoLogger = Nil
       /\ options.ErrorLogger = Nil
       /\ options.ConfigHandler = Nil
       /\ options.QueueDirectory = ""
       /\ ~options.LogMQTT
       /\ options.Clock = Nil

(* Default options have been made for an identity other than the tests' and *)
(* EC credentials.                                                          *)
DefaultOptionsWitness ==
    /\ last.op = "DefaultOptions"
    /\ last.id # NilPtr
    /\ last.id # Ptr(TestID)
    /\ last.credentials = Ptr([Type |-> CredentialTypeEC])

----------------------------------------------------------------------------
(* The Paho transport client (package paho), called directly as its test    *)
(* does.  clients holds the one MQTTClient; a token is the mqtt.Token of    *)
(* one operation handed to the underlying client, with the goroutine and    *)
(* the flag of the waitForToken call that waits for it.                     *)

MaxTokens == 2        \* operations handed to the underlying client

(* The goroutine that calls the client *)
PahoCallers == {1}

PahoOps == {"Connect", "Publish", "Subscribe", "Unsubscribe"}

TokenErrs == {"nil", "token error"}

(* paho.NewClient *)
NewPahoClient ==
    [client |-> 0, made |-> 0, connected |-> FALSE, tokens |-> <<>>]

PahoIsConnectedHasClient(c) == c.client # 0

(* MQTTClient.IsConnected *)
PahoIsConnected(c) ==
    IF c.client = 0 THEN FALSE ELSE c.connected

(* The token an operation of the underlying client returns, and the state  *)
(* of the waitForToken call on it: its goroutine, its cancelled flag, its   *)
(* context and its result.                                                  *)
NewToken(c, p, op, ctxDone) ==
    [op |-> op, caller |-> p, client |-> c.client,
     done |-> FALSE, err |-> "nil",
     ctxDone |-> ctxDone, cancelled |-> FALSE, gpc |-> "wait", val |-> "nil",
     ret |-> "", doneAtReturn |-> FALSE, ctxDoneAtReturn |-> FALSE,
     doneFirst |-> FALSE, ctxFirst |-> ctxDone]

StartOperationUnlessDone(c, p, op, ctxDone) ==
    IF ctxDone
    THEN [client |-> c, pc |-> "idle", err |-> "ErrCancelled", calls |-> <<>>]
    ELSE [client |-> [c EXCEPT !.tokens = Append(@, NewToken(c, p, op, ctxDone))],
          pc |-> "select", err |-> "pending", calls |-> <<Call0(op)>>]

(* token := c.client.Op(...); return waitForToken(ctx, token), up to the    *)
(* select                                                                   *)
StartOperation(c, p, op, ctxDone) ==
    [client |-> [c EXCEPT !.tokens = Append(@, NewToken(c, p, op, ctxDone))],
     pc |-> "select", err |-> "pending", calls |-> <<Call0(op)>>]

(* MQTTClient.Connect, Publish, Subscribe and Unsubscribe, up to the select *)
(* of waitForToken; ctxDone tells whether ctx is done when the call is made *)
PahoOperation(p, op, ctxDone) ==
    /\ procs[p].pc = "idle"
    /\ Len(clients[1].tokens) < MaxTokens
    /\ LET c == IF op = "Connect"
                THEN [clients[1] EXCEPT !.made = @ + 1,
                                        !.client = clients[1].made + 1,
                                        !.connected = FALSE]
                ELSE clients[1]
       IN IF op # "Connect" /\ ~PahoIsConnected(c)
          THEN /\ last' = [Step(op, "ErrNotConnected", <<>>) EXCEPT
                              !.proc = p, !.ctxDone = ctxDone]
               /\ UNCHANGED <<clients, procs>>
          ELSE LET r == StartOperation(c, p, op, ctxDone)
               IN /\ clients' = <<r.client>>
                  /\ procs' = [procs EXCEPT ![p] =
                                 [@ EXCEPT !.pc = r.pc, !.op = op,
                                           !.tk = Len(r.client.tokens)]]
                  /\ last' = [Step(op, r.err, r.calls) EXCEPT
                                 !.proc = p, !.ctxDone = ctxDone,
                                 !.wasConnected = PahoIsConnected(clients[1])]
    /\ UNCHANGED <<options, thing, tickers, now, lastPub, NewClient>>

(* MQTTClient.Disconnect: a connected client disconnects its underlying     *)
(* client and drops it; the result is nil either way.                       *)
PahoDisconnect(p) ==
    /\ procs[p].pc = "idle"
    /\ IF PahoIsConnected(clients[1])
       THEN /\ clients' = <<[clients[1] EXCEPT !.client = 0, !.connected = FALSE]>>
            /\ last' = [Step("Disconnect", "nil", <<Call0("Disconnect")>>) EXCEPT
                            !.proc = p, !.wasConnected = TRUE]
       ELSE /\ last' = [Step("Disconnect", "nil", <<>>) EXCEPT !.proc = p]
            /\ UNCHANGED clients
    /\ UNCHANGED <<options, thing, tickers, now, procs, lastPub, NewClient>>

(* The context of a waiting call is cancelled or expires *)
ContextDone(i) ==
    /\ i \in DOMAIN clients[1].tokens
    /\ clients[1].tokens[i].ret = ""
    /\ ~clients[1].tokens[i].ctxDone
    /\ clients' = <<[clients[1] EXCEPT
                       !.tokens[i].ctxDone = TRUE,
                       !.tokens[i].ctxFirst = ~clients[1].tokens[i].done]>>
    /\ last' = Step("ContextDone", "", <<>>)
    /\ UNCHANGED <<options, thing, tickers, now, procs, lastPub, NewClient>>

(* The underlying client completes an operation, with its error or none;    *)
(* a completed Connect without error connects the client it was made on.    *)
TokenComplete(i, err) ==
    /\ i \in DOMAIN clients[1].tokens
    /\ ~clients[1].tokens[i].done
    /\ LET t == clients[1].tokens[i]
       IN clients' = <<[clients[1] EXCEPT
                          !.tokens[i].done = TRUE,
                          !.tokens[i].err = err,
                          !.tokens[i].doneFirst = ~t.ctxDone,
                          !.connected =
                              IF t.op = "Connect" /\ err = "nil"
                                 /\ t.client = clients[1].client
                              THEN TRUE ELSE @]>>
    /\ last' = Step("TokenComplete", "", <<>>)
    /\ UNCHANGED <<options, thing, tickers, now, procs, lastPub, NewClient>>

WaitLoopExitsAtOnce(t) == TRUE

(* token.WaitTimeout(waitTimeoutDuration) || cancelled; the read of         *)
(* cancelled is not synchronised with its write, so a written flag may or   *)
(* may not be seen.                                                         *)
WaitLoopExits(t) == t.done \/ t.cancelled

(* The goroutine of waitForToken leaves its loop and, in the deferred       *)
(* function, evaluates token.Error() and offers it on result.               *)
WaitLoop(i) ==
    /\ i \in DOMAIN clients[1].tokens
    /\ clients[1].tokens[i].gpc = "wait"
    /\ WaitLoopExits(clients[1].tokens[i])
    /\ clients' = <<[clients[1] EXCEPT
                       !.tokens[i].gpc = "send",
                       !.tokens[i].val = clients[1].tokens[i].err]>>
    /\ last' = Step("WaitLoop", "", <<>>)
    /\ UNCHANGED <<options, thing, tickers, now, procs, lastPub, NewClient>>

(* select, case err := <-result: return err *)
SelectResult(p) ==
    /\ procs[p].pc = "select"
    /\ LET i == procs[p].tk
           t == clients[1].tokens[i]
       IN /\ t.gpc = "send"
          /\ clients' = <<[clients[1] EXCEPT
                             !.tokens[i].gpc = "exited",
                             !.tokens[i].ret = t.val,
                             !.tokens[i].doneAtReturn = t.done,
                             !.tokens[i].ctxDoneAtReturn = t.ctxDone]>>
          /\ last' = [Step(t.op, t.val, <<Call0(t.op)>>) EXCEPT
                         !.proc = p, !.ctxDone = t.ctxDone]
    /\ procs' = [procs EXCEPT ![p] = IdleProc]
    /\ UNCHANGED <<options, thing, tickers, now, lastPub, NewClient>>

(* select, case <-ctx.Done(): cancelled = true; return iot.ErrCancelled *)
SelectDone(p) ==
    /\ procs[p].pc = "select"
    /\ LET i == procs[p].tk
           t == clients[1].tokens[i]
       IN /\ t.ctxDone
          /\ clients' = <<[clients[1] EXCEPT
                             !.tokens[i].cancelled = TRUE,
                             !.tokens[i].ret = "ErrCancelled",
                             !.tokens[i].doneAtReturn = t.done,
                             !.tokens[i].ctxDoneAtReturn = t.ctxDone]>>
          /\ last' = [Step(t.op, "ErrCancelled", <<Call0(t.op)>>) EXCEPT
                         !.proc = p, !.ctxDone = t.ctxDone]
    /\ procs' = [procs EXCEPT ![p] = IdleProc]
    /\ UNCHANGED <<options, thing, tickers, now, lastPub, NewClient>>

InitPaho ==
    /\ options = getOptions(Ptr(TestID), Ptr([Type |-> CredentialTypeRSA]),
                            DefaultAuthTokenExpiration)
    /\ thing = New
    /\ clients = <<NewPahoClient>>
    /\ tickers = <<>>
    /\ now = 0
    /\ procs = [p \in PahoCallers |-> IdleProc]
    /\ lastPub = [issuedAt |-> -1, at |-> -1]
    /\ last = Step("NewClient", "", <<>>)
    /\ NewClient = "paho.NewClient"

NextPaho ==
    \/ \E p \in PahoCallers, op \in PahoOps, ctxDone \in BOOLEAN :
          PahoOperation(p, op, ctxDone)
    \/ \E p \in PahoCallers : PahoDisconnect(p)
    \/ \E i \in 1..MaxTokens : ContextDone(i)
    \/ \E i \in 1..MaxTokens, err \in TokenErrs : TokenComplete(i, err)
    \/ \E i \in 1..MaxTokens : WaitLoop(i)
    \/ \E p \in PahoCallers : SelectResult(p)
    \/ \E p \in PahoCallers : SelectDone(p)

SpecPaho == InitPaho /\ [][NextPaho]_vars

PahoTokens == clients[1].tokens

FailedConnectKeepsClient ==
    [][ (last'.op = "Connect" /\ last'.err # "nil") => thing'.client = thing.client ]_vars

(* C26: a token is signed with ES256 when Credentials.Type is EC and with   *)
(* RS256 when it is RSA or any other value, whatever the expiration, the    *)
(* loggers and the time.                                                    *)
SigningMethodByType ==
    last.op = "CredentialsProvider"
    => LET type == Deref(options.Credentials).Type
       IN /\ type = CredentialTypeEC => last.token.Method = "ES256"
          /\ type = CredentialTypeRSA => last.token.Method = "RS256"
          /\ type \notin {CredentialTypeEC, CredentialTypeRSA}
                => last.token.Method = "RS256"

(* A token has been generated for credentials whose type is neither RSA    *)
(* nor EC *)
SigningMethodByTypeWitness ==
    /\ last.op = "CredentialsProvider"
    /\ Deref(options.Credentials).Type \notin {CredentialTypeEC, CredentialTypeRSA}
    /\ last.token.Method = "RS256"
    /\ last.signErr = "nil"

ProviderReturnsUnusedOrEmpty ==
    /\ (last.op = "CredentialsProvider" /\ last.signErr = "nil")
       => /\ last.username = "unused"
          /\ last.password # <<>>
          /\ last.errorLog = <<>>
    /\ (last.op = "CredentialsProvider" /\ last.signErr # "nil")
       => /\ last.username = ""
          /\ last.password = <<>>
          /\ options.ErrorLogger # Nil
                => /\ Len(last.errorLog) = 1
                   /\ last.errorLog[1].logger = options.ErrorLogger
          /\ options.ErrorLogger = Nil => last.errorLog = <<>>
    /\ last.op = "Connect" => last.err \notin (SignErrs \ {"nil"})

(* Signing has failed with an error logger configured *)
ProviderReturnsUnusedOrEmptyWitness ==
    /\ last.op = "CredentialsProvider"
    /\ last.signErr # "nil"
    /\ options.ErrorLogger # Nil
    /\ last.username = ""
    /\ Len(last.errorLog) = 1

(* C29: in the Paho client every operation is handed to the underlying      *)
(* client before the wait starts; a call that returns ErrCancelled has its  *)
(* operation with the underlying client, its context was done, and the      *)
(* operation, if not yet complete, can still complete afterwards.           *)
CancelLeavesOperationDispatched ==
    /\ \A p \in PahoCallers :
          procs[p].pc = "select"
          => /\ procs[p].tk \in DOMAIN PahoTokens
             /\ PahoTokens[procs[p].tk].op = procs[p].op
             /\ PahoTokens[procs[p].tk].caller = p
    /\ (last.op \in PahoOps /\ last.err = "ErrCancelled")
       => /\ last.calls = <<Call0(last.op)>>
          /\ \E i \in DOMAIN PahoTokens :
                /\ PahoTokens[i].caller = last.proc
                /\ PahoTokens[i].op = last.op
                /\ PahoTokens[i].ret = "ErrCancelled"
                /\ PahoTokens[i].ctxDoneAtReturn
    /\ \A i \in DOMAIN PahoTokens :
          (PahoTokens[i].ret = "ErrCancelled" /\ ~PahoTokens[i].done)
          => ENABLED TokenComplete(i, "nil")
    /\ \A i \in DOMAIN PahoTokens :
          (PahoTokens[i].ret # "" /\ PahoTokens[i].ctxDoneAtReturn
             /\ ~PahoTokens[i].doneAtReturn)
          => PahoTokens[i].ret = "ErrCancelled"

(* A Publish has completed without error after its caller got ErrCancelled *)
CancelLeavesOperationDispatchedWitness ==
    \E i \in DOMAIN PahoTokens :
        /\ PahoTokens[i].op = "Publish"
        /\ PahoTokens[i].ret = "ErrCancelled"
        /\ ~PahoTokens[i].doneAtReturn
        /\ PahoTokens[i].done
        /\ PahoTokens[i].err = "nil"

(* C30 as stated: a wait whose token completed while the context was not    *)
(* done returns the token's error; a wait whose context was done while the  *)
(* token was not complete returns ErrCancelled; and no wait returns nil     *)
(* for a token that has not completed.                                      *)
WaitReturnsByOrder ==
    \A i \in DOMAIN PahoTokens :
        PahoTokens[i].ret # ""
        => /\ PahoTokens[i].doneFirst => PahoTokens[i].ret = PahoTokens[i].err
           /\ PahoTokens[i].ctxFirst => PahoTokens[i].ret = "ErrCancelled"
           /\ PahoTokens[i].ret = "nil" => PahoTokens[i].doneAtReturn

(* C30 amended: a wait returns the token's error or ErrCancelled; the        *)
(* token's error only for a completed token, ErrCancelled only for a done   *)
(* context; the token's error when the token is complete and the context    *)
(* not done as it returns, ErrCancelled when the context is done and the    *)
(* token not complete as it returns; never nil for a token that has not     *)
(* completed.                                                               *)
WaitReturnsTokenErrorOrCancelled ==
    \A i \in DOMAIN PahoTokens :
        LET t == PahoTokens[i]
        IN t.ret # ""
           => /\ t.ret \in {t.err, "ErrCancelled"}
              /\ t.ret # "ErrCancelled" => (t.doneAtReturn /\ t.ret = t.err)
              /\ t.ret = "ErrCancelled" => t.ctxDoneAtReturn
              /\ (t.doneAtReturn /\ ~t.ctxDoneAtReturn) => t.ret = t.err
              /\ (t.ctxDoneAtReturn /\ ~t.doneAtReturn) => t.ret = "ErrCancelled"
              /\ t.ret = "nil" => (t.doneAtReturn /\ t.err = "nil")

(* A Publish on the connected client, made with a context already done,     *)
(* has returned ErrCancelled before its acknowledgement                     *)
WaitReturnsTokenErrorOrCancelledWitness ==
    /\ PahoIsConnected(clients[1])
    /\ last.op = "Publish"
    /\ last.err = "ErrCancelled"
    /\ \E i \in DOMAIN PahoTokens :
          /\ PahoTokens[i].op = "Publish"
          /\ PahoTokens[i].ret = "ErrCancelled"
          /\ PahoTokens[i].ctxFirst
          /\ ~PahoTokens[i].doneAtReturn

(* C31: no operation of the Thing writes a field of the caller's options:   *)
(* the options after a Connect, a Disconnect or an IsConnected are the      *)
(* options before it.                                                       *)
OptionsNeverWritten ==
    [][ last'.op \in {"Connect", "Disconnect", "IsConnected"} => options' = options ]_vars

(* C32: PublishState and PublishEvent return what the client's Publish      *)
(* returned, nil or the error, after one call of it; a failed Publish is    *)
(* not repeated, so the client holds no message of that call.               *)
PublishReturnsClientError ==
    (last.op \in PublishOps /\ last.err \notin {"pending", "panic"})
    => /\ last.err = last.publishErr
       /\ Len(last.calls) = 1
       /\ last.calls[1].m = "Publish"
       /\ last.calls[1].topic = last.topic
       /\ last.calls[1].payload = last.payload

(* A PublishEvent has returned the error of the client's Publish *)
PublishReturnsClientErrorWitness ==
    /\ last.op = "PublishEvent"
    /\ last.publishErr = "ErrCancelled"
    /\ last.err = "ErrCancelled"
    /\ Len(last.calls) = 1

(* C35: at most one ticker is running for the Thing.  No ticker is ever      *)
(* stopped, so the tickers running are all the tickers created.             *)
AtMostOneTickerRunning ==
    Len(tickers) <= 1

WaitGoroutineEnds ==
    \A i \in DOMAIN PahoTokens :
        PahoTokens[i].ret # "" => PahoTokens[i].gpc # "send"

(* C39: Publish, Subscribe and Unsubscribe called while the client holds no *)
(* underlying client, or one that is not connected, return ErrNotConnected  *)
(* and hand it nothing; Disconnect returns nil, leaves the client without   *)
(* a connected underlying client, and changes nothing when there was none.  *)
NotConnectedRejected ==
    [][ LET c == clients[1]
            connected == c.client # 0 /\ c.connected
            calling == \A p \in PahoCallers : procs[p].pc = "idle"
        IN /\ (calling /\ last'.op \in {"Publish", "Subscribe", "Unsubscribe"}
                 /\ ~connected)
              => /\ last'.err = "ErrNotConnected"
                 /\ last'.calls = <<>>
                 /\ clients' = clients
                 /\ procs' = procs
           /\ (calling /\ last'.op \in {"Publish", "Subscribe", "Unsubscribe"}
                 /\ connected)
              => /\ last'.err = "pending"
                 /\ Len(clients'[1].tokens) = Len(c.tokens) + 1
           /\ last'.op = "Disconnect"
              => /\ last'.err = "nil"
                 /\ ~(clients'[1].client # 0 /\ clients'[1].connected)
                 /\ ~connected => clients' = clients
                 /\ connected => clients'[1].client = 0 ]_vars

(* A Publish after a Disconnect has returned ErrNotConnected *)
NotConnectedRejectedWitness ==
    /\ last.op = "Publish"
    /\ last.err = "ErrNotConnected"
    /\ last.calls = <<>>
    /\ clients[1].made > 0
    /\ clients[1].client = 0

(* C38: with no constructor registered, a Connect on a Thing that is not    *)
(* connected and has an ID and Credentials panics, constructing no client;  *)
(* a connected Thing still returns nil and a Thing without ID or            *)
(* Credentials still returns ErrConfigurationError.  The init of package    *)
(* paho registers its constructor when none is registered and leaves a      *)
(* registered one in place.                                                 *)
ConnectWithoutConstructorPanics ==
    [][ /\ (last'.op = "Connect" /\ NewClient = Nil)
           => /\ IsConnected => last'.err = "nil"
              /\ (~IsConnected /\ (options.ID = NilPtr \/ options.Credentials = NilPtr))
                    => last'.err = "ErrConfigurationError"
              /\ (~IsConnected /\ options.ID # NilPtr /\ options.Credentials # NilPtr)
                    => last'.err = "panic"
              /\ clients' = clients /\ thing' = thing
              /\ "NewClient" \notin Methods(last'.calls)
        /\ (last'.op = "Connect" /\ NewClient # Nil) => last'.err # "panic"
        /\ last'.op = "init"
           => /\ NewClient = Nil => NewClient' = "paho.NewClient"
              /\ NewClient # Nil => NewClient' = NewClient ]_vars

(* A Connect with an ID and Credentials has panicked for lack of a          *)
(* constructor                                                              *)
ConnectWithoutConstructorPanicsWitness ==
    /\ last.op = "Connect"
    /\ last.err = "panic"
    /\ NewClient = Nil
    /\ options.ID # NilPtr
    /\ options.Credentials # NilPtr
    /\ clients = <<>>

====
